---- MODULE Spec2Model ----
(***************************************************************************)
(* discollama: a Discord support bot.  The module models                   *)
(*   - the chat transcript table and its adapter (utils/rag.py:            *)
(*     ChatMessage, DatabaseChatMemory),                                   *)
(*   - the pipeline facade's per-conversation chat-engine cache            *)
(*     (utils/rag.py: RAGChatPipeline),                                    *)
(*   - the ticket table and the two event handlers of the Support cog      *)
(*     (cogs/support.py: SupportTicket, create_ticket, on_message).        *)
(* Handlers are coroutines on one event loop: every step between two       *)
(* awaits is one atomic action.                                            *)
(***************************************************************************)
EXTENDS Integers, Sequences, FiniteSets, TLC

\* ------------------------------------------------------------------ bounds
\* Largest value the wall clock (datetime.utcnow) takes in a run.
MaxClock == 1
\* Number of handler invocations (commands and message events) in a run.
MaxEvents == 3
\* Number of adapter calls in a run of the adapter specification.
MaxCalls == 4

\* ------------------------------------------------------------------ inputs
\* Platform snowflakes of threads and users (integers on the platform side).
ThreadIds == {11, 12}
UserIds == {7, 8}
\* Texts of message events, and texts handed to the adapter directly.
Contents == {"Hello"}
Texts == {"Hello", "Help"}
Responses == {"Hi"}
Tasks == {"t1", "t2"}

\* str(n) of a non-negative integer: its decimal digits, most significant first.
Digit(d) == <<"0", "1", "2", "3", "4", "5", "6", "7", "8", "9">>[d + 1]

RECURSIVE ToStr(_)
ToStr(n) == IF n < 10 THEN <<Digit(n)>> ELSE ToStr(n \div 10) \o <<Digit(n % 10)>>

\* Conversation ids are the string forms of thread ids.
ConvIds == {ToStr(t) : t \in ThreadIds}
Roles == {"user", "assistant"}

VARIABLES
  tickets,        \* table support_tickets, rows in insertion order
  chat_messages,  \* table chat_messages, rows in insertion order
  clock,          \* last value datetime.utcnow returned
  chat_engines,   \* RAGChatPipeline.chat_engines: conversation id -> engine
  task,           \* per event-loop task: the handler it runs and where it is
  nEvents,        \* handler invocations so far
  built,          \* per conversation: engines constructed since last reset/start
  used,           \* per conversation: engines chat() used since last reset/start
  lastOp,         \* the step just taken, when it was a reset_chat call
  calls,          \* adapter: per conversation, pairs added since last clear
  result,         \* adapter: what the last get_messages returned
  memOp,          \* adapter: the last call
  prevMemOp,      \* adapter: the call before it
  nCalls          \* adapter calls so far

vars == <<tickets, chat_messages, clock, chat_engines, task, nEvents,
          built, used, lastOp, calls, result, memOp, prevMemOp, nCalls>>

botVars == <<tickets, chat_engines, task, nEvents, built, used, lastOp>>
memVars == <<calls, result, memOp, prevMemOp, nCalls>>

\* ------------------------------------------------------- chat transcript
\* Primary key of the next inserted row (SQLite rowid: largest + 1).
RECURSIVE MaxId(_)
MaxId(rows) == IF rows = <<>> THEN 0
               ELSE LET m == MaxId(Tail(rows)) IN IF Head(rows).id > m THEN Head(rows).id ELSE m

ChatMessage(rows, channel_id, role, content, now) ==
  [id |-> MaxId(rows) + 1, channel_id |-> channel_id, role |-> role,
   content |-> content, timestamp |-> now]

\* DatabaseChatMemory.add_message: insert one row, timestamp by column default.
add_message(rows, channel_id, role, content, now) ==
  Append(rows, ChatMessage(rows, channel_id, role, content, now))

FilterByChannel(rows, channel_id) ==
  SelectSeq(rows, LAMBDA r : r.channel_id = channel_id)

Range(s) == {s[i] : i \in 1..Len(s)}

\* ORDER BY timestamp: every arrangement of the rows with non-decreasing
\* timestamps; the order among rows of equal timestamp is not determined.
RECURSIVE OrderBy(_)
OrderBy(S) ==
  IF S = {} THEN {<<>>}
  ELSE UNION { { <<r>> \o o : o \in OrderBy(S \ {r}) } :
               r \in {x \in S : \A y \in S : x.timestamp <= y.timestamp} }

Pairs(rowSeq) == [i \in 1..Len(rowSeq) |-> [role |-> rowSeq[i].role, content |-> rowSeq[i].content]]

\* DatabaseChatMemory.get_messages: the results the query can produce.
get_messages(rows, channel_id) ==
  { Pairs(o) : o \in OrderBy(Range(FilterByChannel(rows, channel_id))) }

\* DatabaseChatMemory.clear: delete the conversation's rows.
clear_OtherChannels(rows, channel_id) ==
  SelectSeq(rows, LAMBDA r : r.channel_id = channel_id)

clear(rows, channel_id) ==
  SelectSeq(rows, LAMBDA r : r.channel_id # channel_id)

\* ------------------------------------------------------------------ init
NoOp == [op |-> "none", conv |-> <<>>, changed |-> FALSE]

\* A task running no handler.  kind/pc: the handler and its position;
\* thread, thread_id, author, content, response, exc: the handler's locals;
\* the remaining fields record what the invocation has done so far.
IdleTask ==
  [kind |-> "idle", pc |-> "idle", thread |-> 0, thread_id |-> <<>>, author |-> 0,
   content |-> "", response |-> "", exc |-> "none", createOutcome |-> "none",
   created |-> FALSE, inserted |-> FALSE, typing |-> "none", chatCalls |-> 0,
   gen |-> "none", engine |-> 0, sends |-> <<>>, responses |-> <<>>]

Init ==
  /\ tickets = <<>>
  /\ chat_messages = <<>>
  /\ clock = 0
  /\ chat_engines = <<>>
  /\ task = [t \in Tasks |-> IdleTask]
  /\ nEvents = 0
  /\ built = [c \in ConvIds |-> 0]
  /\ used = [c \in ConvIds |-> {}]
  /\ lastOp = NoOp
  /\ calls = [c \in ConvIds |-> <<>>]
  /\ result = <<>>
  /\ memOp = NoOp
  /\ prevMemOp = NoOp
  /\ nCalls = 0


\* ------------------------------------------------------------ ticket store
NoTicket == [thread_id |-> <<>>, user_id |-> <<>>]

SupportTicket(thread_id, user_id) == [thread_id |-> thread_id, user_id |-> user_id]

\* Column(String, unique=True): a row with this thread_id is already stored.
UniqueViolation_Never(rows, thread_id) == FALSE

UniqueViolation(rows, thread_id) ==
  \E i \in 1..Len(rows) : rows[i].thread_id = thread_id

\* session.query(SupportTicket).filter_by(thread_id=thread_id).first()
FirstTicket(rows, thread_id) ==
  LET hits == {i \in 1..Len(rows) : rows[i].thread_id = thread_id}
  IN IF hits = {} THEN NoTicket
     ELSE rows[CHOOSE i \in hits : \A j \in hits : i <= j]

\* The negation of on_message's second early return.
Qualifies_NoOwnerCheck(rows, thread_id, author) ==
  FirstTicket(rows, thread_id) # NoTicket

Qualifies(rows, thread_id, author) ==
  LET ticket == FirstTicket(rows, thread_id)
  IN ~(ticket = NoTicket \/ ToStr(author) # ticket.user_id)

\* ------------------------------------------------------------- exceptions
\* The classes an exception is an instance of.
Mro(e) ==
  IF e = "Forbidden" THEN {"Forbidden", "HTTPException", "Exception"}
  ELSE {e, "Exception"}

\* create_ticket's except clauses, tried in order: the message each sends.
ExceptMessage_HttpFirst(e) ==
  IF "HTTPException" \in Mro(e) THEN "http"
  ELSE IF "Forbidden" \in Mro(e) THEN "permission"
  ELSE "unexpected"

ExceptMessage(e) ==
  IF "Forbidden" \in Mro(e) THEN "permission"
  ELSE IF "HTTPException" \in Mro(e) THEN "http"
  ELSE "unexpected"

\* ------------------------------------------------------------ create_ticket
\* The handler's coroutine has returned or raised: its task is gone before
\* the event loop runs anything else.
Return(t) ==
  /\ task[t].pc = "done"
  /\ task' = [task EXCEPT ![t] = IdleTask]
  /\ lastOp' = NoOp
  /\ UNCHANGED <<tickets, chat_messages, clock, chat_engines, nEvents, built,
                 used, memVars>>

NoneDone == \A u \in Tasks : task[u].pc # "done"

\* A new handler invocation takes the first slot that runs nothing.
Free(t) ==
  /\ NoneDone
  /\ task[t].pc = "idle"
  /\ \A u \in Tasks : (task[u].pc = "idle" /\ u # t) => t = "t1"

\* Task t runs handler `kind` and is about to execute the step `pc`.
At(t, kind, pc) == NoneDone /\ task[t].kind = kind /\ task[t].pc = pc

\* The command starts and awaits interaction.channel.create_thread(...).
\* The id of the created thread is the platform's choice; the handler does
\* not look whether a ticket of that id is stored before it inserts.
CreateThread(t, user, outcome, thread) ==
  /\ Free(t)
  /\ nEvents < MaxEvents
  /\ nEvents' = nEvents + 1
  /\ task' = [task EXCEPT ![t] =
       IF outcome = "ok"
       THEN [IdleTask EXCEPT !.kind = "create_ticket", !.pc = "welcome", !.author = user,
                             !.thread = thread, !.thread_id = ToStr(thread),
                             !.createOutcome = outcome, !.created = TRUE]
       ELSE [IdleTask EXCEPT !.kind = "create_ticket", !.pc = "except", !.author = user,
                             !.createOutcome = outcome, !.exc = outcome]]
  /\ lastOp' = NoOp
  /\ UNCHANGED <<tickets, chat_messages, clock, chat_engines, built, used,
                 memVars>>

\* await thread.send(embed=welcome_embed)
SendWelcome(t, outcome) ==
  /\ At(t, "create_ticket", "welcome")
  /\ task' = [task EXCEPT ![t] =
       [@ EXCEPT !.sends = Append(@, [what |-> "welcome", text |-> "", ok |-> outcome = "ok"]),
                 !.pc = IF outcome = "ok" THEN "respond" ELSE "except",
                 !.exc = IF outcome = "ok" THEN "none" ELSE outcome]]
  /\ lastOp' = NoOp
  /\ UNCHANGED <<tickets, chat_messages, clock, chat_engines, nEvents, built,
                 used, memVars>>

\* await interaction.response.send_message("Support ticket created in ...")
RespondCreated(t, outcome) ==
  /\ At(t, "create_ticket", "respond")
  /\ task' = [task EXCEPT ![t] =
       [@ EXCEPT !.responses = Append(@, [what |-> "created", outcome |-> outcome]),
                 !.pc = IF outcome = "ok" THEN "insert" ELSE "except",
                 !.exc = IF outcome = "ok" THEN "none" ELSE outcome]]
  /\ lastOp' = NoOp
  /\ UNCHANGED <<tickets, chat_messages, clock, chat_engines, nEvents, built,
                 used, memVars>>

\* with self.Session() as session: session.add(new_ticket); session.commit()
InsertTicket(t, dbOk) ==
  /\ At(t, "create_ticket", "insert")
  /\ LET new_ticket == SupportTicket(task[t].thread_id, ToStr(task[t].author))
         error == IF ~dbOk THEN "OperationalError"
                  ELSE IF UniqueViolation(tickets, new_ticket.thread_id) THEN "IntegrityError"
                  ELSE "none"
     IN /\ tickets' = IF error = "none" THEN Append(tickets, new_ticket) ELSE tickets
        /\ task' = [task EXCEPT ![t] =
             [@ EXCEPT !.inserted = (error = "none"),
                       !.pc = IF error = "none" THEN "done" ELSE "except",
                       !.exc = error]]
  /\ lastOp' = NoOp
  /\ UNCHANGED <<chat_messages, clock, chat_engines, nEvents, built, used,
                 memVars>>

Responded(tk) == \E i \in 1..Len(tk.responses) : tk.responses[i].outcome = "ok"

\* The except clause that matches: await interaction.response.send_message(...).
\* A second response to an interaction already responded to is refused.
RespondError(t, outcome) ==
  /\ At(t, "create_ticket", "except")
  /\ outcome = "InteractionResponded" <=> Responded(task[t])
  /\ task' = [task EXCEPT ![t] =
       [@ EXCEPT !.responses = Append(@, [what |-> ExceptMessage(task[t].exc),
                                          outcome |-> outcome]),
                 !.pc = "done",
                 !.exc = IF outcome = "ok" THEN @ ELSE outcome]]
  /\ lastOp' = NoOp
  /\ UNCHANGED <<tickets, chat_messages, clock, chat_engines, nEvents, built,
                 used, memVars>>

\* --------------------------------------------------------- pipeline facade
\* The test `channel_id not in self.chat_engines`.
NeedsEngine_Always(engines, channel_id) == TRUE

NeedsEngine(engines, channel_id) == channel_id \notin DOMAIN engines

\* RAGChatPipeline._get_or_create_chat_engine: the cache afterwards.  An
\* engine is its object identity (eid: which construction for this
\* conversation it is) and the conversation of its chat memory.
GetOrCreateChatEngine(engines, channel_id, eid) ==
  IF NeedsEngine(engines, channel_id)
  THEN (channel_id :> [id |-> eid, chat_memory |-> channel_id]) @@ engines
  ELSE engines

\* The chat engine's turn, the transcript table afterwards: when generation
\* succeeds the user message and the reply are appended to the engine's chat
\* memory, at the times t1 and t2; when it raises nothing is appended.
EngineChat(rows, memory, message, generated, response, t1, t2) ==
  IF generated
  THEN add_message(add_message(rows, memory, "user", message, t1),
                   memory, "assistant", response, t2)
  ELSE rows

\* RAGChatPipeline.reset_chat: the transcript table afterwards.
ResetChatRows(engines, rows, channel_id) ==
  IF channel_id \in DOMAIN engines
  THEN clear(rows, engines[channel_id].chat_memory)
  ELSE rows

\* RAGChatPipeline.reset_chat: the cache afterwards.
ResetChatEngines(engines, channel_id) ==
  IF channel_id \in DOMAIN engines
  THEN [c \in DOMAIN engines \ {channel_id} |-> engines[c]]
  ELSE engines

\* A caller of rag.reset_chat(c).
ResetChat(c) ==
  /\ NoneDone
  /\ chat_messages' = ResetChatRows(chat_engines, chat_messages, c)
  /\ chat_engines' = ResetChatEngines(chat_engines, c)
  /\ built' = [built EXCEPT ![c] = 0]
  /\ used' = [used EXCEPT ![c] = {}]
  /\ lastOp' = [op |-> "reset_chat", conv |-> c, changed |-> chat_messages' # chat_messages]
  /\ UNCHANGED <<tickets, clock, task, nEvents, memVars>>

\* The process stops and starts again: Support.__init__ builds a new
\* RAGChatPipeline with an empty cache over the same database file.
Restart ==
  /\ NoneDone
  /\ chat_engines' = <<>>
  /\ task' = [t \in Tasks |-> IdleTask]
  /\ built' = [c \in ConvIds |-> 0]
  /\ used' = [c \in ConvIds |-> {}]
  /\ lastOp' = NoOp
  /\ UNCHANGED <<tickets, chat_messages, clock, nEvents, memVars>>

\* --------------------------------------------------------------- on_message
\* The event arrives; the handler runs to its first await or returns early.
OnMessage(t, channel, isThread, author, bot, content) ==
  /\ Free(t)
  /\ nEvents < MaxEvents
  /\ nEvents' = nEvents + 1
  /\ LET thread_id == ToStr(channel)
         go == ~(~isThread \/ bot) /\ Qualifies(tickets, thread_id, author)
     IN task' = [task EXCEPT ![t] =
          [IdleTask EXCEPT !.kind = "on_message", !.pc = IF go THEN "typing" ELSE "done",
                           !.thread = channel, !.thread_id = thread_id,
                           !.author = author, !.content = content]]
  /\ lastOp' = NoOp
  /\ UNCHANGED <<tickets, chat_messages, clock, chat_engines, built, used,
                 memVars>>

\* async with message.channel.typing(): entering tells the platform.
StartTyping(t, ok) ==
  /\ At(t, "on_message", "typing")
  /\ task' = [task EXCEPT ![t] =
       [@ EXCEPT !.typing = IF ok THEN "ok" ELSE "failed",
                 !.pc = IF ok THEN "chat" ELSE "apologize",
                 !.exc = IF ok THEN "none" ELSE "HTTPException"]]
  /\ lastOp' = NoOp
  /\ UNCHANGED <<tickets, chat_messages, clock, chat_engines, nEvents, built,
                 used, memVars>>

\* response = self.rag.chat(message.content, thread_id): a blocking call, so
\* no other handler runs between its lookup, construction and turn.
Chat(t, generated, response) ==
  /\ At(t, "on_message", "chat")
  /\ LET c == task[t].thread_id
         fresh == NeedsEngine(chat_engines, c)
         engines == GetOrCreateChatEngine(chat_engines, c, built[c] + 1)
         chat_engine == engines[c]
     IN /\ chat_engines' = engines
        /\ built' = [built EXCEPT ![c] = IF fresh THEN @ + 1 ELSE @]
        /\ used' = [used EXCEPT ![c] = @ \cup {chat_engine.id}]
        /\ \E t1 \in clock..MaxClock : \E t2 \in t1..MaxClock :
             /\ chat_messages' = EngineChat(chat_messages, chat_engine.chat_memory,
                                            task[t].content, generated, response, t1, t2)
             /\ clock' = IF generated THEN t2 ELSE clock
        /\ task' = [task EXCEPT ![t] =
             [@ EXCEPT !.chatCalls = @ + 1,
                       !.engine = chat_engine.id,
                       !.gen = IF generated THEN "ok" ELSE "raised",
                       !.response = IF generated THEN response ELSE "",
                       !.exc = IF generated THEN "none" ELSE "Exception",
                       !.pc = IF generated THEN "send" ELSE "apologize"]]
  /\ lastOp' = NoOp
  /\ UNCHANGED <<tickets, nEvents, memVars>>

\* Where the handler goes after `await message.channel.send(response)`.
AfterSend_Always(ok) == "apologize"

AfterSend(ok) == IF ok THEN "done" ELSE "apologize"

\* await message.channel.send(response)
SendReply(t, ok) ==
  /\ At(t, "on_message", "send")
  /\ task' = [task EXCEPT ![t] =
       [@ EXCEPT !.sends = Append(@, [what |-> "reply", text |-> task[t].response, ok |-> ok]),
                 !.pc = AfterSend(ok),
                 !.exc = IF ok THEN "none" ELSE "HTTPException"]]
  /\ lastOp' = NoOp
  /\ UNCHANGED <<tickets, chat_messages, clock, chat_engines, nEvents, built,
                 used, memVars>>

\* except Exception: await message.channel.send("I apologize, ...")
Apologize(t, ok) ==
  /\ At(t, "on_message", "apologize")
  /\ task' = [task EXCEPT ![t] =
       [@ EXCEPT !.sends = Append(@, [what |-> "apology", text |-> "", ok |-> ok]),
                 !.pc = "done"]]
  /\ lastOp' = NoOp
  /\ UNCHANGED <<tickets, chat_messages, clock, chat_engines, nEvents, built,
                 used, memVars>>

\* ------------------------------------------------------------ specification
Next ==
  \/ \E t \in Tasks : Return(t)
  \/ \E t \in Tasks, user \in UserIds, thread \in ThreadIds,
        outcome \in {"ok", "Forbidden", "HTTPException", "Exception"} :
       CreateThread(t, user, outcome, thread)
  \/ \E t \in Tasks, outcome \in {"ok", "Forbidden", "HTTPException"} : SendWelcome(t, outcome)
  \/ \E t \in Tasks, outcome \in {"ok", "HTTPException"} : RespondCreated(t, outcome)
  \/ \E t \in Tasks, dbOk \in BOOLEAN : InsertTicket(t, dbOk)
  \/ \E t \in Tasks, outcome \in {"ok", "HTTPException", "InteractionResponded"} :
       RespondError(t, outcome)
  \/ \E t \in Tasks, channel \in ThreadIds, isThread \in BOOLEAN, author \in UserIds,
        bot \in BOOLEAN, content \in Contents :
       OnMessage(t, channel, isThread, author, bot, content)
  \/ \E t \in Tasks, ok \in BOOLEAN : StartTyping(t, ok)
  \/ \E t \in Tasks, generated \in BOOLEAN, response \in Responses : Chat(t, generated, response)
  \/ \E t \in Tasks, ok \in BOOLEAN : SendReply(t, ok)
  \/ \E t \in Tasks, ok \in BOOLEAN : Apologize(t, ok)
  \/ \E c \in ConvIds : ResetChat(c)
  \/ Restart

Spec == Init /\ [][Next]_vars

\* ------------------------------------------------ adapter specification
\* A caller of DatabaseChatMemory(session, c, limit).add_message(role, content).
MemAdd(c, role, content) ==
  /\ nCalls < MaxCalls
  /\ \E now \in clock..MaxClock :
       /\ chat_messages' = add_message(chat_messages, c, role, content, now)
       /\ clock' = now
  /\ calls' = [calls EXCEPT ![c] = Append(@, [role |-> role, content |-> content])]
  /\ prevMemOp' = memOp
  /\ memOp' = [op |-> "add", conv |-> c, changed |-> TRUE]
  /\ nCalls' = nCalls + 1
  /\ UNCHANGED <<result, botVars>>

\* A caller of get_messages() on the adapter of conversation c.
MemGet(c) ==
  /\ nCalls < MaxCalls
  /\ \E r \in get_messages(chat_messages, c) : result' = r
  /\ prevMemOp' = memOp
  /\ memOp' = [op |-> "get", conv |-> c, changed |-> FALSE]
  /\ nCalls' = nCalls + 1
  /\ UNCHANGED <<chat_messages, clock, calls, botVars>>

\* A caller of clear() on the adapter of conversation c.
MemClear(c) ==
  /\ nCalls < MaxCalls
  /\ chat_messages' = clear(chat_messages, c)
  /\ calls' = [calls EXCEPT ![c] = <<>>]
  /\ prevMemOp' = memOp
  /\ memOp' = [op |-> "clear", conv |-> c, changed |-> chat_messages' # chat_messages]
  /\ nCalls' = nCalls + 1
  /\ UNCHANGED <<clock, result, botVars>>

MemNext ==
  \/ \E c \in ConvIds, role \in Roles, content \in Texts : MemAdd(c, role, content)
  \/ \E c \in ConvIds : MemGet(c)
  \/ \E c \in ConvIds : MemClear(c)

MemSpec == Init /\ [][MemNext]_vars

\* ------------------------------------------------------------------ claims
OnMessageTasks == {t \in Tasks : task[t].kind = "on_message"}
CreateTasks == {t \in Tasks : task[t].kind = "create_ticket"}
Sent(tk, what) == {i \in 1..Len(tk.sends) : tk.sends[i].what = what}
OwnedTicket(thread_id, user_id) ==
  \E i \in 1..Len(tickets) :
    tickets[i].thread_id = thread_id /\ tickets[i].user_id = user_id

\* C1: a message event leads to a pipeline call or to a message sent into the
\* thread only if a ticket row has the event's thread id and the sender's id.
C1_OnlyOwnedThreads ==
  \A t \in OnMessageTasks :
    (task[t].chatCalls > 0 \/ task[t].sends # <<>> \/ task[t].pc # "done")
      => OwnedTicket(ToStr(task[t].thread), ToStr(task[t].author))

\* C1 witness: one event of a ticket's owner has been answered while an event
\* of another user in a ticketed thread has ended with nothing called or sent.
C1_Witness ==
  \E t, u \in OnMessageTasks :
    /\ task[t].chatCalls = 1 /\ task[t].pc = "send"
    /\ task[u].pc = "done" /\ task[u].chatCalls = 0 /\ task[u].sends = <<>>
    /\ FirstTicket(tickets, task[u].thread_id) # NoTicket
    /\ FirstTicket(tickets, task[u].thread_id).user_id # ToStr(task[u].author)
\* C2: get_messages() returns the conversation's pairs in the order in which
\* the add_message calls were made, equal timestamps included.
C2_InsertionOrder ==
  memOp.op = "get" => result = calls[memOp.conv]

\* C3: after clear() the conversation has no rows, a get_messages() that
\* follows it returns the empty sequence, and a clear() that follows a
\* clear() of the same conversation changes nothing.
C3_ClearEmpties ==
  /\ memOp.op = "clear" => FilterByChannel(chat_messages, memOp.conv) = <<>>
  /\ (memOp.op = "get" /\ prevMemOp.op = "clear" /\ memOp.conv = prevMemOp.conv)
       => result = <<>>
  /\ (memOp.op = "clear" /\ prevMemOp.op = "clear" /\ memOp.conv = prevMemOp.conv)
       => ~memOp.changed

\* C3 witness: a clear() that deleted rows, while the other conversation kept
\* its own, was followed by a get_messages() of the cleared conversation.
C3_Witness ==
  /\ memOp.op = "get" /\ prevMemOp.op = "clear" /\ memOp.conv = prevMemOp.conv
  /\ prevMemOp.changed
  /\ chat_messages # <<>>

\* C4: after reset_chat(c) returns, conversation c has no persisted messages
\* and no cached engine, whether or not an engine was cached before.
C4_ResetClears ==
  lastOp.op = "reset_chat" =>
    /\ FilterByChannel(chat_messages, lastOp.conv) = <<>>
    /\ lastOp.conv \notin DOMAIN chat_engines

\* C5: the ticket store never holds two rows with one thread_id; an insert
\* for a thread_id that has a row is rejected and leaves the store unchanged;
\* stored rows, and so the owner of a thread, never change.
C5_UniqueThread ==
  /\ [](\A i, j \in 1..Len(tickets) :
          tickets[i].thread_id = tickets[j].thread_id => i = j)
  /\ [][\A t \in Tasks :
          (/\ task[t].pc = "insert" /\ task'[t].pc \in {"done", "except"}
           /\ \E i \in 1..Len(tickets) : tickets[i].thread_id = task[t].thread_id)
            => (tickets' = tickets /\ task'[t].pc = "except")]_vars
  /\ [][\A i \in 1..Len(tickets) : Len(tickets') >= i /\ tickets'[i] = tickets[i]]_vars

\* C5 witness: an insert was rejected for a thread whose row belongs to
\* another user, and that row is still the only one of the thread.
C5_Witness ==
  \E t \in CreateTasks :
    /\ task[t].exc = "IntegrityError"
    /\ FirstTicket(tickets, task[t].thread_id) # NoTicket
    /\ FirstTicket(tickets, task[t].thread_id).user_id # ToStr(task[t].author)

\* C6: a ticket row is inserted only if thread creation succeeded; when
\* thread creation is refused for lack of permission no row is inserted and
\* the one response of the command is the permission message, not a generic one.
C6_ForbiddenThread ==
  \A t \in CreateTasks :
    /\ task[t].inserted => task[t].created
    /\ task[t].createOutcome = "Forbidden" =>
         /\ ~task[t].inserted
         /\ \A i \in 1..Len(task[t].responses) : task[t].responses[i].what = "permission"
         /\ task[t].pc = "done" =>
              /\ Len(task[t].responses) = 1
              /\ task[t].responses[1].outcome \in {"ok", "HTTPException"}

\* C6 witness: a command whose thread creation was forbidden has finished
\* and the requester has the permission message.
C6_Witness ==
  \E t \in CreateTasks :
    /\ task[t].createOutcome = "Forbidden" /\ task[t].pc = "done"
    /\ task[t].responses = <<[what |-> "permission", outcome |-> "ok"]>>
    /\ tickets # <<>>

TryFailed(tk) ==
  \/ tk.gen = "raised"
  \/ tk.typing = "failed"
  \/ \E i \in Sent(tk, "reply") : ~tk.sends[i].ok

ErrorHandled(tk) ==
  /\ tk.chatCalls <= 1
  /\ Cardinality(Sent(tk, "apology")) <= 1
  /\ (tk.gen = "raised" /\ tk.pc = "done") =>
       /\ Cardinality(Sent(tk, "apology")) = 1
       /\ Sent(tk, "reply") = {}
       /\ tk.chatCalls = 1

\* C7 as stated: an error of generation is answered by one apology and no
\* second pipeline call, and the apology is sent only when generation raised.
C7_ApologyOnlyOnGenerationError ==
  \A t \in OnMessageTasks :
    /\ ErrorHandled(task[t])
    /\ Sent(task[t], "apology") # {} => task[t].gen = "raised"

\* C7 amended: an error of generation is answered by one apology and no
\* second pipeline call, and the apology is sent only when a statement of the
\* try block raised: the typing indicator, generation, or sending the reply.
C7_ApologyOnTryError ==
  \A t \in OnMessageTasks :
    /\ ErrorHandled(task[t])
    /\ Sent(task[t], "apology") # {} => TryFailed(task[t])

\* C7 witness: generation raised, and the handler ended after one apology.
C7_Witness ==
  \E t \in OnMessageTasks :
    /\ task[t].gen = "raised" /\ task[t].pc = "done"
    /\ task[t].sends = <<[what |-> "apology", text |-> "", ok |-> TRUE]>>

Position(o, id) == CHOOSE i \in 1..Len(o) : o[i].id = id

\* What one successful turn of task t adds to its conversation's transcript.
TurnPersisted(t) ==
  LET c == task'[t].thread_id
      before == FilterByChannel(chat_messages, c)
      after == FilterByChannel(chat_messages', c)
      n == Len(before)
  IN /\ Len(after) = n + 2
     /\ \A i \in 1..n : after[i] = before[i]
     /\ after[n + 1].role = "user" /\ after[n + 1].content = task[t].content
     /\ after[n + 2].role = "assistant" /\ after[n + 2].content = task'[t].response

UserRowFirst(t) ==
  LET after == FilterByChannel(chat_messages', task'[t].thread_id)
      n == Len(after)
  IN \A o \in OrderBy(Range(after)) :
       Position(o, after[n - 1].id) < Position(o, after[n].id)

OneReply(tk) ==
  (tk.gen = "ok" /\ tk.pc = "done") =>
     /\ Cardinality(Sent(tk, "reply")) = 1
     /\ \A i \in Sent(tk, "reply") : tk.sends[i].text = tk.response

\* C8: a message of the owner whose generation succeeds persists one user row
\* with its content and one assistant row with the reply, the user row before
\* the assistant row in get_messages(), and one reply is sent into the thread.
C8_Exchange ==
  /\ [][\A t \in Tasks : (task[t].pc = "chat" /\ task'[t].pc = "send")
          => (TurnPersisted(t) /\ UserRowFirst(t))]_vars
  /\ [](\A t \in OnMessageTasks : OneReply(task[t]))

\* C8 without the order of get_messages(): the rows and the reply alone.
C8_ExchangeUnordered ==
  /\ [][\A t \in Tasks : (task[t].pc = "chat" /\ task'[t].pc = "send")
          => TurnPersisted(t)]_vars
  /\ [](\A t \in OnMessageTasks : OneReply(task[t]))

\* C9: between two reset_chat calls at most one engine is constructed for a
\* conversation id, and every chat call for the id uses that one engine.
C9_OneEnginePerConversation ==
  \A c \in ConvIds :
    /\ built[c] <= 1
    /\ Cardinality(used[c]) <= 1
    /\ \A t \in OnMessageTasks :
         (task[t].thread_id = c /\ task[t].chatCalls > 0 /\ c \in DOMAIN chat_engines)
           => task[t].engine = chat_engines[c].id

\* C9 witness: two message events of one conversation are in flight at once,
\* both past their chat call, both served by the one engine built for it.
C9_Witness ==
  \E t, u \in OnMessageTasks :
    /\ t # u /\ task[t].thread_id = task[u].thread_id
    /\ task[t].pc = "send" /\ task[u].pc = "send"
    /\ task[t].engine = task[u].engine
    /\ built[task[t].thread_id] = 1

\* C10: one invocation of the command responds to its interaction at most
\* once, and when the success notice was sent and the handler has finished a
\* ticket row of the thread exists.
C10_SingleResponse ==
  \A t \in CreateTasks :
    /\ Len(task[t].responses) <= 1
    /\ (task[t].pc = "done" /\ [what |-> "created", outcome |-> "ok"] \in Range(task[t].responses))
         => FirstTicket(tickets, task[t].thread_id) # NoTicket

====
